---- MODULE Spec2Model ----
(***************************************************************************)
(* A model of bin/nrl.py (nrl_finder): finder reads fragment lengths,      *)
(* hunt_nrls builds a unit-bin histogram, low-pass filters the part from   *)
(* offset on, finds the critical points of the filtered curve, classifies  *)
(* them, computes the area under the curve from the first minimum and      *)
(* prunes the extrema by raw count; construct_plot and format_output       *)
(* follow.  Arrays are sequences; a Python index k is position k+1.        *)
(***************************************************************************)
EXTENDS Integers, Sequences, FiniteSets

VARIABLES
    pc,           \* the stage the invocation of finder has completed
    failure,      \* the exception that ended the invocation ("none": none)
    lengths,      \* read_bed's result
    offset,       \* finder's argument offset
    freq_cutoff,  \* finder's argument freq_cutoff
    count_thr,    \* finder's argument count_thr  (bound when hunt_nrls reads it)
    out_format,   \* finder's argument out_format (bound when format_output reads it)
    bin_edges,    \* hunt_nrls: bin_edges after line 71
    counts,       \* hunt_nrls: counts
    counts_f,     \* hunt_nrls: counts_f
    crt_pt,       \* hunt_nrls: crt_pt after line 88
    maxes,        \* hunt_nrls: maxes
    mins,         \* hunt_nrls: mins
    auc,          \* hunt_nrls: auc
    output,       \* finder: output, <<>> until hunt_nrls has returned its dict
    returned      \* what finder returned to its caller ("nothing": nothing)

vars == <<pc, failure, lengths, offset, freq_cutoff, count_thr, out_format,
          bin_edges, counts, counts_f, crt_pt, maxes, mins, auc, output, returned>>

----------------------------------------------------------------------------
(* Bounds of the model *)

MaxReads == 2
MaxLength == 23
MaxOffset == 1
MaxThr == 1
MaxSig == 3
HeadFree == 3
Plateau == 1

(* The fragment lengths an input may hold: an empty interval, a short      *)
(* fragment near the start of the filtered range, and the longest one.     *)
LengthVals == {0, 3, MaxLength}

InputLengths == UNION {[1..n -> LengthVals] : n \in 0..MaxReads}

Offsets == {0, MaxOffset}

FreqCutoffs == {0, 40, 600, 1000}

OutFormats == {"maxes", "mins", "auc", "figure", "nrl"}

SigVals == 0..MaxSig

----------------------------------------------------------------------------
(* Program constants *)

FilterOrder == 6
CutoffScale == 1000

(* filtfilt's default padlen, 3 * max(len(a), len(b)), for the order-6     *)
(* filter butter returns: the input must be longer than it.                *)
PadLen == 3 * (FilterOrder + 1)

----------------------------------------------------------------------------
(* numpy on sequences *)

Range(s) == {s[i] : i \in DOMAIN s}

NpMax(s) == CHOOSE x \in Range(s) : \A y \in Range(s) : y <= x

RECURSIVE NpSum(_)
NpSum(s) == IF s = <<>> THEN 0 ELSE s[1] + NpSum(Tail(s))

\* s[k:]
SliceFrom(s, k) == SubSeq(s, k + 1, Len(s))

\* s[k], a negative k counting from the end
PyIndex(s, k) == IF k < 0 THEN s[Len(s) + k + 1] ELSE s[k + 1]

NpDiff(s) == [i \in 1..(Len(s) - 1) |-> s[i + 1] - s[i]]

\* np.roll(s, -1)
NpRollLeft(s) == [i \in 1..Len(s) |-> s[(i % Len(s)) + 1]]

NpMultiply(a, b) == [i \in 1..Len(a) |-> a[i] * b[i]]

\* the positions at which mask holds, ascending
MaskPositions(mask) == SelectSeq([i \in 1..Len(mask) |-> i], LAMBDA i : mask[i])

\* the Python indices of the positions pos
PyIndices(pos) == [k \in 1..Len(pos) |-> pos[k] - 1]

\* np.where(mask)[0]
NpWhere(mask) == PyIndices(MaskPositions(mask))

\* v at the positions pos
TakeAt(v, pos) == [k \in 1..Len(pos) |-> v[pos[k]]]

\* v[mask]
MaskSelect(v, mask) == TakeAt(v, MaskPositions(mask))

\* s<0 and s>0, elementwise
NpNegative(s) == [i \in 1..Len(s) |-> s[i] < 0]
NpPositive(s) == [i \in 1..Len(s) |-> s[i] > 0]

----------------------------------------------------------------------------
(* hunt_nrls, lines 69-72: the histogram.  Bin edges are held doubled so   *)
(* that 0.5 is the integer 1.                                              *)

\* np.arange(0.5, np.max(lengths)+1), doubled
BinEdges2(ls) == [k \in 1..(NpMax(ls) + 1) |-> 2 * k - 1]

\* np.histogram(lengths, bin_edges)[0]: bin k is [edge k, edge k+1), the last closed
NpHistogram(ls, e2) ==
    [k \in 1..(Len(e2) - 1) |->
        Cardinality({j \in DOMAIN ls :
            /\ 2 * ls[j] >= e2[k]
            /\ \/ 2 * ls[j] < e2[k + 1]
               \/ k = Len(e2) - 1 /\ 2 * ls[j] = e2[k + 1]})]

\* bin_edges[1:]-0.5
BookKeptEdges(e2) == [k \in 1..(Len(e2) - 1) |-> (e2[k + 1] - 1) \div 2]

\* Raise with finder catching the exception and returning what it holds
RaisePartial(err) ==
    /\ pc' = "Failed"
    /\ failure' = err
    /\ returned' = "partial"

\* an exception leaves finder: nothing is returned to the caller
Raise(err) ==
    /\ pc' = "Failed"
    /\ failure' = err
    /\ UNCHANGED returned

BuildHistogram ==
    /\ pc = "Init"
    /\ IF lengths = <<>>
       THEN /\ Raise("ValueError:max")
            /\ UNCHANGED <<bin_edges, counts>>
       ELSE /\ pc' = "HistogramBuilt"
            /\ bin_edges' = BookKeptEdges(BinEdges2(lengths))
            /\ counts' = NpHistogram(lengths, BinEdges2(lengths))
            /\ UNCHANGED <<failure, returned>>
    /\ UNCHANGED <<lengths, offset, freq_cutoff, count_thr, out_format,
                   counts_f, crt_pt, maxes, mins, auc, output>>

----------------------------------------------------------------------------
(* hunt_nrls, lines 75-81: the low-pass filter *)

\* ButterAccepts with the cutoff normalised to the sampling rate, not to Nyquist
ButterAcceptsHalf(fc) == 0 < fc /\ 2 * fc < CutoffScale

\* signal.butter(6, freq_cutoff*1.0/1000): a digital filter's critical
\* frequency Wn = freq_cutoff/CutoffScale must satisfy 0 < Wn < 1
ButterAccepts(fc) == 0 < fc /\ fc < CutoffScale

(* signal.filtfilt(b, a, counts_tf) returns a curve as long as its input.  *)
(* Its values are left open: any curve over SigVals that is free on its    *)
(* first HeadFree samples and on its last sample, and sits at Plateau in   *)
(* between.                                                                *)
FilteredSignals(n) ==
    {[i \in 1..n |-> IF i <= HeadFree THEN h[i] ELSE IF i = n THEN t ELSE Plateau] :
        h \in [1..HeadFree -> SigVals], t \in SigVals}

Filter ==
    /\ pc = "HistogramBuilt"
    /\ LET counts_tf == SliceFrom(counts, offset)
       IN  IF ~ButterAccepts(freq_cutoff)
           THEN /\ Raise("ValueError:butter")
                /\ UNCHANGED counts_f
           ELSE IF Len(counts_tf) <= PadLen
           THEN /\ Raise("ValueError:filtfilt")
                /\ UNCHANGED counts_f
           ELSE /\ pc' = "Filtered"
                /\ counts_f' \in FilteredSignals(Len(counts_tf))
                /\ UNCHANGED <<failure, returned>>
    /\ UNCHANGED <<lengths, offset, freq_cutoff, count_thr, out_format,
                   bin_edges, counts, crt_pt, maxes, mins, auc, output>>

----------------------------------------------------------------------------
(* hunt_nrls, lines 84-92: critical points and the second derivative test  *)

\* line 86, from dcounts, before the offset is added
CriticalPointsOf(dcounts) ==
    NpWhere(<<FALSE>> \o NpNegative(NpMultiply(dcounts, NpRollLeft(dcounts))))

\* lines 84 and 86
CriticalPoints(f) == CriticalPointsOf(NpDiff(f))

\* line 87, from ddcounts
SecondDerivativeAt(ddcounts, crt) ==
    [k \in 1..Len(crt) |-> PyIndex(ddcounts, crt[k] - 2)]

\* lines 85 and 87
SecondDerivativeTest(f, crt) == SecondDerivativeAt(NpDiff(NpDiff(f)), crt)

\* line 88
Rebase(crt, off) == [k \in 1..Len(crt) |-> crt[k] + off]

\* line 91, from the critical points
MaxesAmong(crt, f, off) ==
    MaskSelect(Rebase(crt, off), NpNegative(SecondDerivativeTest(f, crt)))

\* line 92, from the critical points
MinsAmong(crt, f, off) ==
    MaskSelect(Rebase(crt, off), NpPositive(SecondDerivativeTest(f, crt)))

\* lines 84-91
ClassifiedMaxes(f, off) == MaxesAmong(CriticalPoints(f), f, off)

\* lines 84-92
ClassifiedMins(f, off) == MinsAmong(CriticalPoints(f), f, off)

ClassifyExtrema ==
    /\ pc = "Filtered"
    /\ pc' = "ExtremaClassified"
    /\ crt_pt' = Rebase(CriticalPoints(counts_f), offset)
    /\ maxes' = ClassifiedMaxes(counts_f, offset)
    /\ mins' = ClassifiedMins(counts_f, offset)
    /\ UNCHANGED <<failure, lengths, offset, freq_cutoff, count_thr, out_format,
                   bin_edges, counts, counts_f, auc, output, returned>>

----------------------------------------------------------------------------
(* hunt_nrls, line 93: the area under the curve *)

\* AreaFrom leaving out the first minimum's own bin
AreaFromExclusive(cs, first) == NpSum(SliceFrom(cs, first + 1))

\* np.sum(counts[first:])
AreaFrom(cs, first) == NpSum(SliceFrom(cs, first))

\* ComputeAUC with an empty mins read as "no bins to sum"
ComputeAUCDefault ==
    /\ pc = "ExtremaClassified"
    /\ pc' = "AUCComputed"
    /\ auc' = IF mins = <<>> THEN 0 ELSE AreaFrom(counts, mins[1])
    /\ UNCHANGED <<failure, returned, lengths, offset, freq_cutoff, count_thr,
                   out_format, bin_edges, counts, counts_f, crt_pt, maxes, mins,
                   output>>

ComputeAUC ==
    /\ pc = "ExtremaClassified"
    /\ IF mins = <<>>
       THEN /\ Raise("IndexError:auc")
            /\ UNCHANGED auc
       ELSE /\ pc' = "AUCComputed"
            /\ auc' = AreaFrom(counts, mins[1])
            /\ UNCHANGED <<failure, returned>>
    /\ UNCHANGED <<lengths, offset, freq_cutoff, count_thr, out_format,
                   bin_edges, counts, counts_f, crt_pt, maxes, mins, output>>

----------------------------------------------------------------------------
(* hunt_nrls, lines 96-108: pruning by raw count, and the returned dict *)

\* idx[counts[idx]>thr]
Prune(idx, cs, thr) ==
    MaskSelect(idx, [k \in 1..Len(idx) |-> PyIndex(cs, idx[k]) > thr])

PruneAndReturn ==
    /\ pc = "AUCComputed"
    /\ pc' = "HuntReturned"
    /\ \E thr \in 0..MaxThr :
        /\ count_thr' = thr
        /\ maxes' = Prune(maxes, counts, thr)
        /\ mins' = Prune(mins, counts, thr)
    /\ output' = <<[bin_edges |-> bin_edges,
                   counts |-> counts,
                   bin_edges_f |-> SliceFrom(bin_edges, offset),
                   counts_f |-> counts_f,
                   maxes |-> maxes',
                   mins |-> mins',
                   auc |-> auc]>>
    /\ UNCHANGED <<failure, lengths, offset, freq_cutoff, out_format,
                   bin_edges, counts, counts_f, crt_pt, auc, returned>>

----------------------------------------------------------------------------
(* construct_plot, lines 115-139 *)

\* lines 118, 124 and 128 index the first minimum, the maxes found in
\* bin_edges_f (an empty list makes a float index array) and the last
\* filtered count above 1
PlotRaises(out) ==
    \/ out.mins = <<>>
    \/ out.maxes = <<>>
    \/ \A i \in DOMAIN out.counts_f : out.counts_f[i] <= 1

ConstructPlot ==
    /\ pc = "HuntReturned"
    /\ IF PlotRaises(output[1])
       THEN Raise("IndexError:plot")
       ELSE /\ pc' = "Plotted"
            /\ UNCHANGED <<failure, returned>>
    /\ UNCHANGED <<lengths, offset, freq_cutoff, count_thr, out_format,
                   bin_edges, counts, counts_f, crt_pt, maxes, mins, auc,
                   output>>

----------------------------------------------------------------------------
(* format_output, lines 147-160, and finder's return, line 41 *)

FormatOutput ==
    /\ pc = "Plotted"
    /\ \E fmt \in OutFormats :
        /\ out_format' = fmt
        /\ IF fmt \in {"maxes", "mins", "auc"}
           THEN /\ pc' = "Done"
                /\ returned' = fmt
                /\ UNCHANGED failure
           ELSE IF fmt = "figure"
           THEN /\ pc' = "Done"
                /\ returned' = "None"
                /\ UNCHANGED failure
           ELSE Raise("KeyError:out_format")
    /\ UNCHANGED <<lengths, offset, freq_cutoff, count_thr,
                   bin_edges, counts, counts_f, crt_pt, maxes, mins, auc, output>>

\* the value finder hands to its caller once returned names a key of output
ReturnedValue == output[1][returned]

----------------------------------------------------------------------------
(* finder is entered with read_bed's lengths.  count_thr and out_format    *)
(* are arguments no statement reads before lines 96 and 147: they are      *)
(* drawn there, and hold a placeholder until then.                         *)
Init ==
    /\ pc = "Init"
    /\ failure = "none"
    /\ lengths \in InputLengths
    /\ offset \in Offsets
    /\ freq_cutoff \in FreqCutoffs
    /\ count_thr = 0
    /\ out_format = "maxes"
    /\ bin_edges = <<>>
    /\ counts = <<>>
    /\ counts_f = <<>>
    /\ crt_pt = <<>>
    /\ maxes = <<>>
    /\ mins = <<>>
    /\ auc = 0
    /\ output = <<>>
    /\ returned = "nothing"

Next ==
    \/ BuildHistogram
    \/ Filter
    \/ ClassifyExtrema
    \/ ComputeAUC
    \/ PruneAndReturn
    \/ ConstructPlot
    \/ FormatOutput

Spec == Init /\ [][Next]_vars

----------------------------------------------------------------------------
(* What the stages have established *)

StageOrder == <<"Init", "HistogramBuilt", "Filtered", "ExtremaClassified",
                "AUCComputed", "HuntReturned", "Plotted", "Done">>

StageAfter(st) ==
    LET k == CHOOSE i \in DOMAIN StageOrder : StageOrder[i] = st
    IN  StageOrder[k + 1]

\* lines 69-72 have run
HistogramDone == pc # "Init" /\ failure # "ValueError:max"

\* line 79 has been reached and has either raised or returned
DesignDone == HistogramDone /\ pc # "HistogramBuilt"

\* line 80 has returned
FilterDone == DesignDone /\ failure \notin {"ValueError:butter", "ValueError:filtfilt"}

\* lines 84-92 have run
ClassifyDone == FilterDone /\ pc # "Filtered"

\* line 93 has returned
AucDone == ClassifyDone /\ pc # "ExtremaClassified" /\ failure # "IndexError:auc"

\* hunt_nrls has returned its dict
HuntDone == output # <<>>

\* the smallest of a non-empty sequence of indices
SmallestOf(idx) == CHOOSE x \in Range(idx) : \A y \in Range(idx) : x <= y

\* the raw counts of bins first, first+1, ... to the end of the histogram, summed
RawCountFrom(first) == NpSum(SubSeq(counts, first + 1, Len(counts)))

\* the first differences of the filtered curve, d[j] for j in 0..n-2
FirstDiff(j) == counts_f[j + 2] - counts_f[j + 1]

StrictLocalMax(i) ==
    /\ 1 <= i /\ i <= Len(counts_f) - 2
    /\ counts_f[i + 1] > counts_f[i]
    /\ counts_f[i + 1] > counts_f[i + 2]

StrictLocalMin(i) ==
    /\ 1 <= i /\ i <= Len(counts_f) - 2
    /\ counts_f[i + 1] < counts_f[i]
    /\ counts_f[i + 1] < counts_f[i + 2]

----------------------------------------------------------------------------
(* C1: histogram index space is fragment-length space: counts[i] is the    *)
(* number of input lengths equal to i, and an index returned for "maxes"   *)
(* or "mins" is the read length of the bin it designates.                  *)
C1_IndexIsLength ==
    /\ HistogramDone =>
         \A i \in 0..(Len(counts) - 1) :
            PyIndex(counts, i) = Cardinality({j \in DOMAIN lengths : lengths[j] = i})
    /\ (pc = "Done" /\ returned \in {"maxes", "mins"}) =>
         \A k \in DOMAIN ReturnedValue :
            PyIndex(bin_edges, ReturnedValue[k]) = ReturnedValue[k]

(* C2: the histogram's counts sum to the number of input lengths, lengths  *)
(* of 0 included: no input length is dropped.                              *)
C2_CountsSumToLen == HistogramDone => NpSum(counts) = Len(lengths)

(* C3: every index hunt_nrls returns in maxes and mins has a raw count     *)
(* above count_thr, and with count_thr = 0 the returned maxes and mins are *)
(* exactly the classified ones.                                            *)
C3_PruneKeepsAllAtZero ==
    HuntDone =>
        /\ \A k \in DOMAIN output[1].maxes :
              PyIndex(counts, output[1].maxes[k]) > count_thr
        /\ \A k \in DOMAIN output[1].mins :
              PyIndex(counts, output[1].mins[k]) > count_thr
        /\ count_thr = 0 =>
              /\ output[1].maxes = ClassifiedMaxes(counts_f, offset)
              /\ output[1].mins = ClassifiedMins(counts_f, offset)

(* C4: whenever hunt_nrls returns, auc is the sum of the raw counts from   *)
(* the smallest index of the unpruned minima to the end of the histogram,  *)
(* whatever count_thr is.                                                  *)
C4_AucFromFirstUnprunedMin ==
    pc = "HuntReturned" => output[1].auc = RawCountFrom(SmallestOf(ClassifiedMins(counts_f, offset)))

\* pruning has removed a minimum from a bin that holds reads, and auc still counts them
C4_Witness ==
    /\ pc = "HuntReturned"
    /\ count_thr > 0
    /\ output[1].mins # ClassifiedMins(counts_f, offset)
    /\ output[1].auc > 0

(* C5: with count_thr at least every bin's raw count and at least one      *)
(* classified minimum, the invocation completes without error, in          *)
(* hunt_nrls and in finder's construct_plot after it: maxes and mins are   *)
(* empty and auc is the value from the unpruned first minimum.             *)
C5_HighThresholdCompletes ==
    (HuntDone /\ \A i \in DOMAIN counts : counts[i] <= count_thr) =>
        /\ output[1].maxes = <<>>
        /\ output[1].mins = <<>>
        /\ output[1].auc = AreaFrom(counts, ClassifiedMins(counts_f, offset)[1])
        /\ failure # "IndexError:plot"

(* C6, as stated: the filter design accepts freq_cutoff only in the open   *)
(* interval (0, 500); outside it the invocation fails with the invalid     *)
(* cutoff error and returns nothing, inside it the design does not fail.   *)
C6_CutoffBelow500 ==
    DesignDone =>
        IF 0 < freq_cutoff /\ freq_cutoff < 500
        THEN failure # "ValueError:butter"
        ELSE pc = "Failed" /\ failure = "ValueError:butter" /\ returned = "nothing"

(* C6, amended: once the histogram is built, the filter design accepts     *)
(* freq_cutoff exactly in the open interval (0, 1000): outside it the      *)
(* invocation fails with the invalid cutoff error and returns nothing,     *)
(* inside it the design does not fail.                                     *)
C6_CutoffBelow1000 ==
    DesignDone =>
        IF 0 < freq_cutoff /\ freq_cutoff < 1000
        THEN failure # "ValueError:butter"
        ELSE pc = "Failed" /\ failure = "ValueError:butter" /\ returned = "nothing"

\* a cutoff of 600 passes the design and the invocation completes
C6_Witness == freq_cutoff = 600 /\ pc = "Done"

(* C7: when classification yields no minimum the invocation fails and      *)
(* returns nothing; no auc is computed, no dict returned by hunt_nrls and  *)
(* no value returned by finder without a classified minimum.               *)
C7_NoMinimumFails ==
    [][/\ (pc = "ExtremaClassified" /\ ClassifiedMins(counts_f, offset) = <<>>) =>
            (pc' = "Failed" /\ returned' = "nothing" /\ output' = <<>>)
       /\ (pc' = "AUCComputed" \/ output' # output \/ returned' # returned) =>
            ClassifiedMins(counts_f', offset') # <<>>]_vars

\* the invocation has failed at the auc for want of a minimum, among critical points
C7_Witness ==
    /\ pc = "Failed"
    /\ failure = "IndexError:auc"
    /\ crt_pt # <<>>
    /\ mins = <<>>
    /\ returned = "nothing"

(* C8: the stages run in the fixed order, none is revisited, a failure is  *)
(* terminal, and a failed invocation returns nothing to the caller.        *)
C8_SequentialStages ==
    [][/\ pc \notin {"Done", "Failed"}
       /\ pc' \in {StageAfter(pc), "Failed"}
       /\ pc' # "Done" => returned' = "nothing"
       /\ pc' = "Failed" <=> failure' # "none"]_vars

\* a failure after hunt_nrls has returned its dict: the dict is not handed on
C8_Witness ==
    /\ pc = "Failed"
    /\ failure = "IndexError:plot"
    /\ output # <<>>
    /\ returned = "nothing"

(* C9: the candidate critical points of a filtered sub-range of n samples  *)
(* are exactly the local indices i with 1 <= i <= n-2 and                  *)
(* d[i-1] * d[i] < 0: never the first nor the last sample.                 *)
C9_CandidatesInterior ==
    ClassifyDone =>
        {crt_pt[k] - offset : k \in DOMAIN crt_pt} =
            {i \in 1..(Len(counts_f) - 2) : FirstDiff(i - 1) * FirstDiff(i) < 0}

(* C10: every index classified as a maximum is a strict local maximum of   *)
(* the filtered curve and every index classified as a minimum is a strict  *)
(* local minimum.                                                          *)
C10_ClassifiedAreExtrema ==
    pc = "ExtremaClassified" =>
        /\ \A k \in DOMAIN maxes : StrictLocalMax(maxes[k] - offset)
        /\ \A k \in DOMAIN mins : StrictLocalMin(mins[k] - offset)

====
